---- MODULE Spec2Model ----
(***************************************************************************)
(* State-machine model of grad_visit_scheduler.core.Scheduler: the         *)
(* scheduler's catalog and availability state, the MILP built by           *)
(* _build_model (as the set of binary assignment vectors y that satisfy    *)
(* its constraints), the external MIP solver as a nondeterministic oracle  *)
(* that honours Pyomo's termination contract, the single-solve path and    *)
(* the top-N enumeration loop with no-good cuts, and the immutable         *)
(* SolutionResult snapshots handed to the caller.                          *)
(*                                                                         *)
(* Real-valued weights are scaled by 10 so that every quantity is an       *)
(* integer (4.0 -> 40, 0.5 -> 5, base 0.2 -> 2, penalty 0.1 -> 1).         *)
(***************************************************************************)
EXTENDS Integers, Sequences, FiniteSets, TLC

(***************************************************************************)
(* Bounds of the model.                                                    *)
(***************************************************************************)
NumSlots == 3     \* number of time slots of the configured grid
MaxN == 2         \* largest n_solutions asked of schedule_visitors_top_n
MaxCalls == 1     \* solve calls made on one scheduler
MaxEdits == 1     \* catalog/availability edits made on one scheduler

\* The two limits of a behaviour, unless its specification sets others.
DefaultLimits == [calls |-> MaxCalls, edits |-> MaxEdits]

(***************************************************************************)
(* Small helpers.                                                          *)
(***************************************************************************)
Max2(a, b) == IF a >= b THEN a ELSE b

Min2(a, b) == IF a <= b THEN a ELSE b

RECURSIVE SumOver(_, _)
SumOver(S, f) ==
    IF S = {} THEN 0
    ELSE LET x == CHOOSE e \in S : TRUE
         IN  f[x] + SumOver(S \ {x}, f)

MaxOfSet(S) == IF S = {} THEN 0 ELSE CHOOSE x \in S : \A z \in S : z <= x

SeqToSet(q) == {q[i] : i \in DOMAIN q}

\* A Python dict d extended or overwritten at key k.
DictPut(d, k, v) == [x \in DOMAIN d \cup {k} |-> IF x = k THEN v ELSE d[x]]

(***************************************************************************)
(* Python values that stand for "absent".                                  *)
(***************************************************************************)
None == "None"

NoAttr == "<unset>"   \* an attribute that was never assigned (hasattr is False)

\* The same for attributes that hold objects (model, results, parameter dict).
NoObject == <<>>

(***************************************************************************)
(* The scheduler object and the caller-visible results.                    *)
(***************************************************************************)
VARIABLES
    times_by_building,      \* building -> tuple of slot labels
    break_times,            \* set of configured break slot indices
    require_break_constraints_default, \* legacy NO_OFFSET marker
    movement_policy,        \* "none" | "travel_time"
    building_phase_slot,    \* building -> earliest slot
    travel_slots,           \* building -> building -> lag
    student_data,           \* visitor -> CSV row
    faculty,                \* name -> info dict (the scheduling pool)
    external_faculty,       \* name -> info dict
    legacy_faculty,         \* name -> info dict
    include_legacy_faculty, \* the constructor's flag
    students_available,     \* visitor -> set of slots
    wcfg,                   \* faculty_weights, area_weights, base_weight
    student_preferences,    \* <<visitor, host>> -> weight
    requests,               \* visitor -> tuple of requested hosts
    model,                  \* the live Pyomo model, or NoObject
    results,                \* self.results, or NoObject
    last_termination_condition,
    last_solver_status,
    last_solution_set,      \* [kind: unset | None | SolutionSet, solutions]
    last_solve_params,
    pc,                     \* "idle" | "topn": position of the control flow
    loop,                   \* locals of a running schedule_visitors_top_n
    solutions,              \* the SolutionResult tuple built by / returned to the caller
    ret,                    \* how the last call ended
    solve_log,              \* terminations of the solves of the last call
    calls,                  \* solve calls made so far
    edits,                  \* edits made so far
    lag_buffer,             \* min_buffer_minutes handed to compute_min_travel_lags
    lags,                   \* the matrix compute_min_travel_lags returned, or NoObject
    constructed,            \* further schedulers constructed on the same time grid
    limits                  \* how many solve calls and edits a behaviour makes

cfgvars == <<times_by_building, break_times, require_break_constraints_default,
             movement_policy, building_phase_slot, travel_slots, student_data,
             legacy_faculty, include_legacy_faculty, lag_buffer, lags, constructed,
             limits>>

poolvars == <<faculty, external_faculty, students_available, wcfg,
              student_preferences, requests>>

solvevars == <<model, results, last_termination_condition, last_solver_status,
               last_solution_set, last_solve_params, pc, loop, solutions, ret,
               solve_log, calls>>

vars == <<cfgvars, poolvars, solvevars, edits>>

(***************************************************************************)
(* Time grid.  A slot label "H:MM-H:MM" is kept as its four numbers.       *)
(***************************************************************************)
time_slots == 1 .. NumSlots

Buildings == <<"A", "B">>

BuildingSet == SeqToSet(Buildings)

building_a == Buildings[1]

\* The label text of the interval [start, start + duration) in minutes.
SlotLabel(start, duration) ==
    [sh |-> start \div 60, sm |-> start % 60,
     eh |-> (start + duration) \div 60, em |-> (start + duration) % 60]

\* n labels of one building, as the tests build them.
BuildSlots(start_minute, duration, step, n_slots) ==
    [i \in 1 .. n_slots |-> SlotLabel(start_minute + (i - 1) * step, duration)]

slot2min(slot) == <<60 * slot.sh + slot.sm, 60 * slot.eh + slot.em>>

\* Variant: one more than the largest overlapping index distance.
OnePlusMaxTravelLags(times, min_buffer_minutes) ==
    [b_from \in DOMAIN times |->
       [b_to \in DOMAIN times |->
          IF b_from = b_to THEN 0
          ELSE LET gaps == {p[2] - p[1] : p \in
                              {q \in (DOMAIN times[b_from]) \X (DOMAIN times[b_to]) :
                                  /\ q[2] > q[1]
                                  /\ slot2min(times[b_to][q[2]])[1]
                                       < slot2min(times[b_from][q[1]])[2] + min_buffer_minutes}}
               IN  IF gaps = {} THEN 0 ELSE 1 + MaxOfSet(gaps)]]

\* Minimal slot lag between every ordered pair of distinct buildings: the
\* largest forward index distance j - i of a pair of slots whose intervals
\* overlap, To[j].start < From[i].end + buffer, and 0 when none does.
compute_min_travel_lags(times, min_buffer_minutes) ==
    LET parsed == [b \in DOMAIN times |->
                     [i \in DOMAIN times[b] |-> slot2min(times[b][i])]]
        Gaps(b_from, b_to) ==
            {j - i : <<i, j>> \in
                {p \in (DOMAIN times[b_from]) \X (DOMAIN times[b_to]) :
                    /\ p[2] > p[1]
                    /\ parsed[b_to][p[2]][1]
                         < parsed[b_from][p[1]][2] + min_buffer_minutes}}
    IN  [b_from \in DOMAIN times |->
           [b_to \in DOMAIN times |->
              IF b_from = b_to THEN 0 ELSE MaxOfSet(Gaps(b_from, b_to))]]

(***************************************************************************)
(* Movement configuration (Scheduler._configure_movement).                 *)
(***************************************************************************)
DefaultTravel == [b \in BuildingSet |-> [bb \in BuildingSet |-> IF b = bb THEN 0 ELSE 1]]

ZeroTravel == [b \in BuildingSet |-> [bb \in BuildingSet |-> 0]]

\* The empty movement dict, which is also what movement=None becomes.
NoMovement == [k \in {} |-> None]

\* Legacy mode -> movement dict.
LegacyMovement(mode) ==
    LET second_slot == Min2(2, NumSlots)
    IN  CASE mode = "BUILDING_A_FIRST" ->
               [policy |-> "none",
                phase_slot |-> [b \in BuildingSet |-> IF b = Buildings[1] THEN 1 ELSE second_slot]]
          [] mode = "BUILDING_B_FIRST" ->
               [policy |-> "none",
                phase_slot |-> [b \in BuildingSet |-> IF b = Buildings[1] THEN second_slot ELSE 1]]
          [] OTHER ->
               [policy |-> "travel_time",
                phase_slot |-> [b \in BuildingSet |-> 1],
                travel_slots |-> DefaultTravel]

\* The text "auto" given as travel_slots, kept as its characters.
AutoText == <<"a", "u", "t", "o">>

\* The scheduler's movement attributes for (mode, movement); "error" names
\* the exception raised.  A travel_slots value that is a string has no
\* .get, which the row lookup of the travel_time branch calls.
ConfigureMovement(mode, movement) ==
    LET use_legacy_mode == mode # None /\ DOMAIN movement = {}
        mv == IF use_legacy_mode THEN LegacyMovement(mode) ELSE movement
        policy == IF "policy" \in DOMAIN mv THEN mv.policy ELSE "none"
        phase == [b \in BuildingSet |->
                    IF "phase_slot" \in DOMAIN mv /\ b \in DOMAIN mv.phase_slot
                    THEN mv.phase_slot[b] ELSE 1]
        travel == IF "travel_slots" \in DOMAIN mv THEN mv.travel_slots ELSE DefaultTravel
    IN  IF policy \notin {"none", "travel_time"}
        THEN [error |-> "ValueError"]
        ELSE IF \E b \in BuildingSet : phase[b] < 1 \/ phase[b] > NumSlots
        THEN [error |-> "ValueError"]
        ELSE IF policy = "travel_time" /\ AutoText = travel
        THEN [error |-> "AttributeError"]
        ELSE IF /\ policy = "travel_time"
                /\ \E b \in BuildingSet : \E bb \in BuildingSet : travel[b][bb] < 0
        THEN [error |-> "ValueError"]
        ELSE [error |-> None,
              require_break_constraints_default |->
                  (use_legacy_mode /\ mode = "NO_OFFSET"),
              movement_policy |-> policy,
              building_phase_slot |-> phase,
              travel_slots |-> IF policy = "travel_time" THEN travel ELSE ZeroTravel]

(***************************************************************************)
(* Catalog and weights.                                                    *)
(***************************************************************************)
NaN == "nan"

FacultyFields == <<"Prof1", "Prof2">>

AreaFields == <<"Area1", "Area2">>

faculty_aliases == [a \in {"Al", "El"} |-> IF a = "Al" THEN "fA" ELSE "fL"]

AliasOf(name) == IF name \in DOMAIN faculty_aliases THEN faculty_aliases[name] ELSE name

\* An entry of self.faculty / self.external_faculty / self.legacy_faculty.
Info(b, avail, areas, room) == [building |-> b, avail |-> avail, areas |-> areas, room |-> room]

\* _load_faculty_catalog: <<faculty, legacy_faculty, external_faculty>>.
LoadFacultyCatalog(catalog) ==
    LET entry(n) == Info(catalog[n].building,
                         IF catalog[n].status = "external" THEN {} ELSE time_slots,
                         catalog[n].areas, catalog[n].room)
        leg == {n \in DOMAIN catalog : catalog[n].status = "legacy"}
        ext == {n \in DOMAIN catalog : catalog[n].status = "external"}
        act == DOMAIN catalog \ (leg \cup ext)
    IN  <<[n \in act \cup ext |-> entry(n)],
          [n \in leg |-> entry(n)],
          [n \in ext |-> entry(n)]>>

\* Host names as they appear in the visitors' ranked request columns.
NamesInPrefs(sd) ==
    {sd[s][FacultyFields[i]] : s \in DOMAIN sd, i \in DOMAIN FacultyFields} \ {NaN}

\* _add_legacy_faculty_from_preferences: the pool after the merge.
AddLegacyFromPreferences(fac, leg, sd, include_all) ==
    LET add == IF include_all THEN DOMAIN leg \ DOMAIN fac
               ELSE (NamesInPrefs(sd) \cap DOMAIN leg) \ DOMAIN fac
    IN  [n \in DOMAIN fac \cup add |-> IF n \in DOMAIN fac THEN fac[n] ELSE leg[n]]

\* _add_external_faculty_from_preferences: <<faculty, external_faculty>>.
AddExternalFromPreferences(fac, ext, leg, sd) ==
    LET new == {AliasOf(n) : n \in NamesInPrefs(sd)}
                 \ (DOMAIN fac \cup DOMAIN ext \cup DOMAIN leg)
        ext2 == [n \in DOMAIN ext \cup new |->
                    IF n \in DOMAIN ext THEN ext[n] ELSE Info(building_a, {}, {}, "")]
    IN  <<[n \in DOMAIN fac \cup DOMAIN ext2 |->
              IF n \in DOMAIN fac THEN fac[n] ELSE ext2[n]],
          ext2>>

\* The host a request cell resolves to in _update_student_preferences, or NaN.
RequestedName(cell) ==
    IF cell = NaN \/ cell \in {"", "none", "na"} THEN NaN ELSE AliasOf(cell)

\* The ranked-request loop of _update_student_preferences over fw[i..]:
\* <<student_preferences, requests>>.
RECURSIVE ApplyFacultyWeights(_, _, _, _, _, _)
ApplyFacultyWeights(prefs, reqs, fw, i, sd, fac) ==
    IF i > Len(fw) THEN <<prefs, reqs>>
    ELSE LET k == fw[i].k
             name(s) == RequestedName(sd[s][k])
             hit(s) == name(s) # NaN /\ name(s) \in DOMAIN fac
         IN  ApplyFacultyWeights(
                 [p \in DOMAIN prefs |->
                     IF hit(p[1]) /\ name(p[1]) = p[2] THEN fw[i].v ELSE prefs[p]],
                 [s \in DOMAIN reqs |->
                     IF hit(s) THEN Append(reqs[s], name(s)) ELSE reqs[s]],
                 fw, i + 1, sd, fac)

\* _update_student_preferences: <<student_preferences, requests>>.
UpdateStudentPreferences(w, sd, fac) ==
    LET base == [p \in (DOMAIN sd) \X (DOMAIN fac) |-> w.base_weight]
        ranked == ApplyFacultyWeights(base, [s \in DOMAIN sd |-> <<>>],
                                      w.faculty_weights, 1, sd, fac)
        bonus(s, f) ==
            SumOver({i \in DOMAIN w.area_weights :
                        /\ sd[s][w.area_weights[i].k] # NaN
                        /\ sd[s][w.area_weights[i].k] \in fac[f].areas},
                    [i \in DOMAIN w.area_weights |-> w.area_weights[i].v])
    IN  <<[p \in DOMAIN base |-> ranked[1][p] + bonus(p[1], p[2])], ranked[2]>>

\* update_weights keeps only the ranked columns present in the CSV.
WeightConfig(faculty_weight, area_weight, base_weight) ==
    [faculty_weights |-> SelectSeq(faculty_weight, LAMBDA e : e.k \in SeqToSet(FacultyFields)),
     area_weights |-> area_weight,
     base_weight |-> base_weight]

DefaultFacultyWeight ==
    <<[k |-> "Prof1", v |-> 40], [k |-> "Prof2", v |-> 30], [k |-> "Prof3", v |-> 20],
      [k |-> "Prof4", v |-> 10], [k |-> "Prof5", v |-> 5]>>

DefaultAreaWeight == <<[k |-> "Area1", v |-> 10], [k |-> "Area2", v |-> 5]>>

DefaultBaseWeight == 2

(***************************************************************************)
(* The MILP of _build_model.  An assignment vector y is the set of index   *)
(* triples <<s, f, t>> whose binary variable is 1.  The continuous and     *)
(* auxiliary variables (beyond_one_visitor, faculty_too_many_meetings,     *)
(* in_building, faculty_breaks) are projected out: y is feasible when some *)
(* value of them satisfies the rows that mention them.                     *)
(***************************************************************************)
faculty_available == {f \in DOMAIN faculty : Cardinality(faculty[f].avail) > 0}

AllIndices(vs, fs) == vs \X fs \X time_slots

MeetingsOfHost(y, f) == Cardinality({i \in y : i[2] = f})

MeetingsOfVisitor(y, s) == Cardinality({i \in y : i[1] = s})

GroupSize(y, f, t) == Cardinality({i \in y : i[2] = f /\ i[3] = t})

\* Variant: any slot of the grid counts as available.
AvailabilityOfAnySlot(s, f, t) == t \in time_slots

\* y[s, f, t] <= (1 if t in self.faculty[f]['avail'] else 0)
availability(s, f, t) == t \in faculty[f].avail

\* Variant: every host is held to the phase slot of the first building.
PhaseOfFirstBuilding(s, f, t) == t >= building_phase_slot[building_a]

\* y[s, f, t] <= (1 if t >= phase else 0)
building_phase(s, f, t) == t >= building_phase_slot[faculty[f].building]

\* Variant: the fixing loop reads the host's availability.
FixedByHostAvailability(s, f, t) == t \in faculty[f].avail

\* y[s, f, t].fix(0) for every t outside students_available[s]
NotFixedToZero(s, f, t) == t \in students_available[s]

min_visitors_constraint(y, f, min_visitors) == MeetingsOfHost(y, f) >= min_visitors

\* Variant: the bound is applied to each slot rather than to the total.
MaxVisitorsPerSlot(y, f, max_visitors) == \A t \in time_slots : GroupSize(y, f, t) <= max_visitors

max_visitors_constraint(y, f, max_visitors) == MeetingsOfHost(y, f) <= max_visitors

\* Variant: the row allows two meetings in a slot.
SimultaneousMeetingsUpToTwo(y, s, t) == Cardinality({i \in y : i[1] = s /\ i[3] = t}) <= 2

no_simultanous_meetings(y, s, t) == Cardinality({i \in y : i[1] = s /\ i[3] = t}) <= 1

\* Variant: the row is skipped for a visitor with limited availability.
MinFacultyWhenFullyAvailable(y, s, P) ==
    students_available[s] = time_slots => MeetingsOfVisitor(y, s) >= P.min_faculty

min_faculty(y, s, P) ==
    MeetingsOfVisitor(y, s) >= Min2(P.min_faculty, Cardinality(students_available[s]))

meeting_each_prof_only_once(y, s, f) == Cardinality({i \in y : i[1] = s /\ i[2] = f}) <= 1

\* Variant: the bound counts the visitors beyond the first.
MaxGroupBeyondOne(y, f, t, max_group) == GroupSize(y, f, t) - 1 <= max_group

max_group_size(y, f, t, max_group) == GroupSize(y, f, t) <= max_group

\* The least in_building[s, b, t] that in_building_link allows.
InBuilding(y, s, b, t) == \E i \in y : i[1] = s /\ i[3] = t /\ faculty[i[2]].building = b

\* Variant: the last slot of the lag window is left out.
TravelTimeOneSlotShort(y, vs) ==
    \A s \in vs : \A b_from \in BuildingSet : \A b_to \in BuildingSet :
        \/ b_from = b_to
        \/ travel_slots[b_from][b_to] <= 0
        \/ \A t_from \in time_slots :
             \A t_to \in (t_from + 1) .. Min2(NumSlots, t_from + travel_slots[b_from][b_to] - 1) :
                ~(InBuilding(y, s, b_from, t_from) /\ InBuilding(y, s, b_to, t_to))

\* Variant: the lag of the way back is read.
TravelTimeLagOfWayBack(y, vs) ==
    \A s \in vs : \A b_from \in BuildingSet : \A b_to \in BuildingSet :
        \/ b_from = b_to
        \/ travel_slots[b_to][b_from] <= 0
        \/ \A t_from \in time_slots :
             \A t_to \in (t_from + 1) .. Min2(NumSlots, t_from + travel_slots[b_to][b_from]) :
                ~(InBuilding(y, s, b_from, t_from) /\ InBuilding(y, s, b_to, t_to))

\* in_building[s, b_from, t_from] + in_building[s, b_to, t_to] <= 1 for every
\* t_to in t_from + 1 .. min(number_time_slots, t_from + lag).
travel_time_constraints(y, vs) ==
    \A s \in vs : \A b_from \in BuildingSet : \A b_to \in BuildingSet :
        \/ b_from = b_to
        \/ travel_slots[b_from][b_to] <= 0
        \/ \A t_from \in time_slots :
             \A t_to \in (t_from + 1) .. Min2(NumSlots, t_from + travel_slots[b_from][b_to]) :
                ~(InBuilding(y, s, b_from, t_from) /\ InBuilding(y, s, b_to, t_to))

\* Variant: the bound is the number of break slots.
StudentBreaksUpToAll(y, s) ==
    Cardinality({i \in y : i[1] = s /\ i[3] \in break_times}) <= Cardinality(break_times)

\* sum of y[s, f, t] over break slots <= len(break_options) - 1
student_breaks(y, s) ==
    Cardinality({i \in y : i[1] = s /\ i[3] \in break_times}) <= Cardinality(break_times) - 1

\* faculty_in_break and faculty_must_break: a host with full availability
\* has a break slot without meetings.
faculty_must_break(y, f) ==
    \/ Cardinality(faculty[f].avail) < NumSlots
    \/ \E t \in break_times : GroupSize(y, f, t) = 0

\* Variant: only the enforce_breaks argument counts.
BreaksActiveByArgument(P) == P.enforce_breaks

BreaksActive(P) == require_break_constraints_default \/ P.enforce_breaks

\* Every row of the model that constrains y.
Feasible(y, vs, fs, P) ==
    /\ \A i \in y : availability(i[1], i[2], i[3])
    /\ \A i \in y : building_phase(i[1], i[2], i[3])
    /\ \A i \in y : NotFixedToZero(i[1], i[2], i[3])
    /\ \A f \in fs : min_visitors_constraint(y, f, P.min_visitors)
    /\ \A f \in fs : max_visitors_constraint(y, f, P.max_visitors)
    /\ \A s \in vs : \A t \in time_slots : no_simultanous_meetings(y, s, t)
    /\ \A s \in vs : min_faculty(y, s, P)
    /\ \A s \in vs : \A f \in fs : meeting_each_prof_only_once(y, s, f)
    /\ \A f \in fs : \A t \in time_slots : max_group_size(y, f, t, P.max_group)
    /\ movement_policy = "travel_time" => travel_time_constraints(y, vs)
    /\ BreaksActive(P) => \A s \in vs : student_breaks(y, s)
    /\ BreaksActive(P) => \A f \in fs : faculty_must_break(y, f)

\* Variant: the build goes on with the scheduler's model object when there
\* is one.
ConcreteModelReused ==
    IF model = NoObject THEN [no_good_cuts |-> NoAttr, y |-> NoAttr, stale |-> TRUE]
    ELSE [no_good_cuts |-> model.no_good_cuts, y |-> model.y, stale |-> model.stale]

\* m = pyo.ConcreteModel(): a new model object, without a cut list and
\* with variables that hold no value from a solve (Pyomo marks them stale).
ConcreteModel == [no_good_cuts |-> NoAttr, y |-> NoAttr, stale |-> TRUE]

\* _build_model: the model object, or the exception it raises.
BuildModel(P) ==
    LET vs == DOMAIN student_data
        fs == faculty_available
    IN  IF \E s \in vs : \E f \in fs : <<s, f>> \notin DOMAIN student_preferences
        THEN [error |-> "KeyError"]
        ELSE IF BreaksActive(P) /\ break_times = {}
        THEN [error |-> "ValueError"]
        ELSE [error |-> None,
              visitors |-> vs,
              faculty |-> fs,
              penalty |-> P.group_penalty,
              max_visitors |-> P.max_visitors,
              weights |-> [p \in vs \X fs |-> student_preferences[p]],
              feasible |-> {y \in SUBSET AllIndices(vs, fs) : Feasible(y, vs, fs, P)},
              fixed |-> {i \in AllIndices(vs, fs) : ~NotFixedToZero(i[1], i[2], i[3])},
              no_good_cuts |-> ConcreteModel.no_good_cuts,
              y |-> ConcreteModel.y,
              stale |-> ConcreteModel.stale]

\* The objective at y with the auxiliary variables at their best values:
\* beyond_one_visitor[f, t] = max(0, group size - 1) and
\* faculty_too_many_meetings[f] = 1 iff meetings > max_visitors - 2.
ObjectiveValue(m, y) ==
    LET utility == SumOver(y, [i \in y |-> m.weights[<<i[1], i[2]>>]])
        ft == m.faculty \X time_slots
        cost == SumOver(ft, [p \in ft |-> Max2(0, GroupSize(y, p[1], p[2]) - 1)])
        many == Cardinality({f \in m.faculty : MeetingsOfHost(y, f) - m.max_visitors + 2 > 0})
    IN  utility - m.penalty * cost - 3 * m.penalty * many

(***************************************************************************)
(* No-good cuts.                                                           *)
(***************************************************************************)
\* Variant: a row that only asks one of the active variables to drop.
NoGoodCutActiveOnly(m, solution) ==
    [ones |-> solution.active_meetings, zeros |-> {}]

\* The row _add_no_good_cut adds for a solution: its two index lists.
NoGoodCut(m, solution) ==
    LET all_indices == AllIndices(m.visitors, m.faculty)
        active_indices == {i \in all_indices : i \in solution.active_meetings}
    IN  [ones |-> active_indices, zeros |-> all_indices \ active_indices]

\* sum(1 - y[i] for i in ones) + sum(y[i] for i in zeros) >= 1
CutSatisfied(cut, y) ==
    Cardinality(cut.ones \ y) + Cardinality(cut.zeros \cap y) >= 1

Cuts(m) == IF m.no_good_cuts = NoAttr THEN <<>> ELSE m.no_good_cuts

\* Variant: the row is dropped.
AddNoGoodCutSkipped(m, solution) == m

\* Variant: the constraint list is created anew for every cut.
AddNoGoodCutToNewList(m, solution) ==
    [m EXCEPT !.no_good_cuts = <<NoGoodCut(m, solution)>>]

\* _add_no_good_cut: the model with one more row.
AddNoGoodCut(m, solution) ==
    [m EXCEPT !.no_good_cuts = Append(Cuts(m), NoGoodCut(m, solution))]

\* The assignment vectors the solver may still return.
Candidates(m) == {y \in m.feasible : \A k \in DOMAIN Cuts(m) : CutSatisfied(Cuts(m)[k], y)}

(***************************************************************************)
(* The external MIP solver, by Pyomo's termination contract: "optimal"     *)
(* comes with a best remaining vector, "feasible" with any remaining       *)
(* vector, "infeasible" only when none remains; any solve may also end     *)
(* with another termination (limit, error, unknown) or raise.              *)
(***************************************************************************)
OkTerminations == {"optimal", "feasible"}

Best(m) == {y \in Candidates(m) : \A z \in Candidates(m) : ObjectiveValue(m, z) <= ObjectiveValue(m, y)}

SolverOutcomes(m) ==
    {[termination |-> "optimal", status |-> "ok", y |-> y] : y \in Best(m)}
    \cup {[termination |-> "feasible", status |-> "ok", y |-> y] : y \in Candidates(m)}
    \cup (IF Candidates(m) = {}
          THEN {[termination |-> "infeasible", status |-> "warning", y |-> NoAttr]}
          ELSE {})
    \cup {[termination |-> "other", status |-> "aborted", y |-> NoAttr],
          [termination |-> "raise", status |-> "error", y |-> NoAttr]}

\* _solve_model loads the variable values of an optimal or feasible solve.
LoadVars(m, out) ==
    IF out.termination \in OkTerminations THEN [m EXCEPT !.y = out.y, !.stale = FALSE] ELSE m

(***************************************************************************)
(* Snapshots.                                                              *)
(***************************************************************************)
\* Variant: the snapshot keeps the scheduler's own dict object.
ContextFacultyShared(name) == [ref |-> name]

\* The copy of one host's info dict kept by a snapshot.
ContextFacultyEntry(name) == faculty[name]

\* _build_solution_context
BuildSolutionContext ==
    [times_by_building |-> times_by_building,
     faculty |-> [name \in DOMAIN faculty |-> ContextFacultyEntry(name)],
     number_time_slots |-> NumSlots,
     student_preferences |-> student_preferences,
     requests |-> requests,
     legacy_faculty |-> DOMAIN legacy_faculty,
     external_faculty |-> DOMAIN external_faculty]

\* _snapshot_solution on model m after a solve that ended with out.
SnapshotSolution(m, rank, out) ==
    [rank |-> rank,
     objective_value |-> ObjectiveValue(m, m.y),
     termination_condition |-> out.termination,
     solver_status |-> out.status,
     visitors |-> m.visitors,
     faculty |-> m.faculty,
     time_slots |-> time_slots,
     active_meetings |-> {i \in AllIndices(m.visitors, m.faculty) : i \in m.y},
     context |-> BuildSolutionContext]

\* What a reader of a snapshot sees for a host: the entry itself, or, when
\* the entry is the scheduler's own dict object, that dict as it is now.
ReadEntry(e) == IF "ref" \in DOMAIN e THEN faculty[e.ref] ELSE e

\* Everything a caller can read from a snapshot.
SolutionView(sol) ==
    [rank |-> sol.rank,
     objective_value |-> sol.objective_value,
     termination_condition |-> sol.termination_condition,
     solver_status |-> sol.solver_status,
     active_meetings |-> sol.active_meetings,
     times_by_building |-> sol.context.times_by_building,
     faculty |-> [n \in DOMAIN sol.context.faculty |-> ReadEntry(sol.context.faculty[n])],
     student_preferences |-> sol.context.student_preferences,
     requests |-> sol.context.requests]

(***************************************************************************)
(* Queries.                                                                *)
(***************************************************************************)
has_feasible_solution ==
    IF results = NoObject THEN FALSE ELSE last_termination_condition \in OkTerminations

\* infeasibility_report: the kind of text returned and its figures.
infeasibility_report ==
    IF results = NoObject THEN [kind |-> "No solver results available."]
    ELSE IF has_feasible_solution THEN [kind |-> "Solution is feasible."]
    ELSE LET min_visitors == last_solve_params.min_visitors
             min_fac == last_solve_params.min_faculty
             max_group == last_solve_params.max_group
             fa == faculty_available
             vs == DOMAIN student_data
             total_faculty_capacity ==
                 SumOver(fa, [f \in fa |-> Cardinality(faculty[f].avail) * max_group])
             total_student_capacity ==
                 SumOver(vs, [s \in vs |-> Cardinality(students_available[s])])
             total_capacity == Min2(total_faculty_capacity, total_student_capacity)
             total_min_student_meetings ==
                 SumOver(vs, [s \in vs |-> Min2(min_fac, Cardinality(students_available[s]))])
             total_min_faculty_meetings == Cardinality(fa) * min_visitors
         IN  [kind |-> "capacity diagnostic",
              termination |-> last_termination_condition,
              status |-> last_solver_status,
              students |-> Cardinality(vs),
              faculty |-> Cardinality(fa),
              capacity_students |-> total_student_capacity,
              capacity_faculty |-> total_faculty_capacity,
              effective_capacity |-> total_capacity,
              required_min_faculty |-> total_min_student_meetings,
              required_min_visitors |-> total_min_faculty_meetings,
              min_faculty_exceeds |-> total_min_student_meetings > total_capacity,
              min_visitors_exceeds |-> total_min_faculty_meetings > total_capacity,
              insufficient |->
                  IF min_visitors > 0
                  THEN {f \in fa : Cardinality(faculty[f].avail) * max_group < min_visitors}
                  ELSE {}]

(***************************************************************************)
(* Inputs of the operations.                                               *)
(***************************************************************************)
Params(min_visitors, max_visitors, min_fac, max_group, enforce_breaks) ==
    [group_penalty |-> 1, min_visitors |-> min_visitors, max_visitors |-> max_visitors,
     min_faculty |-> min_fac, max_group |-> max_group, enforce_breaks |-> enforce_breaks]

\* Solve parameters tried: a loose one with and without break enforcement,
\* and one whose min_visitors no host can meet.
ParamChoices ==
    {Params(0, 2, 1, 1, e) : e \in BOOLEAN} \cup {Params(2, 2, 1, 1, FALSE)}

\* (name, available) pairs tried for faculty_limited_availability.
AvailChoices ==
    {<<"fA", {}>>, <<"fA", {1}>>, <<"fB", {NumSlots + 1}>>, <<"nobody", {1}>>}

\* Mappings tried for specify_limited_student_availability.
GivenChoices == {[s \in {"v1"} |-> {1}], [s \in {"ghost"} |-> {1}]}

Catalog ==
    [n \in {"fA", "fB"} |->
        [building |-> IF n = "fA" THEN "A" ELSE "B",
         areas |-> IF n = "fA" THEN {"Area1"} ELSE {"Area2"},
         room |-> IF n = "fA" THEN "101" ELSE "201",
         status |-> "active"]]

OneVisitorCsv ==
    [s \in {"v1"} |-> [Prof1 |-> "fA", Prof2 |-> "fB", Area1 |-> "Area1", Area2 |-> NaN]]

AlignedTimes == [b \in BuildingSet |-> BuildSlots(60, 25, 30, NumSlots)]

(***************************************************************************)
(* Scheduler.__init__                                                      *)
(***************************************************************************)
Construct(times, breaks, mode, movement, catalog, sd, include_legacy) ==
    LET mv == ConfigureMovement(mode, movement)
        cat == LoadFacultyCatalog(catalog)
        withLegacy == AddLegacyFromPreferences(cat[1], cat[2], sd, include_legacy)
        withExt == AddExternalFromPreferences(withLegacy, cat[3], cat[2], sd)
        w == WeightConfig(DefaultFacultyWeight, DefaultAreaWeight, DefaultBaseWeight)
        prefs == UpdateStudentPreferences(w, sd, withExt[1])
    IN  /\ mv.error = None
        /\ times_by_building = times
        /\ break_times = breaks
        /\ require_break_constraints_default = mv.require_break_constraints_default
        /\ movement_policy = mv.movement_policy
        /\ building_phase_slot = mv.building_phase_slot
        /\ travel_slots = mv.travel_slots
        /\ student_data = sd
        /\ faculty = withExt[1]
        /\ external_faculty = withExt[2]
        /\ legacy_faculty = cat[2]
        /\ include_legacy_faculty = include_legacy
        /\ students_available = [s \in DOMAIN sd |-> time_slots]
        /\ wcfg = w
        /\ student_preferences = prefs[1]
        /\ requests = prefs[2]
        /\ model = NoObject
        /\ results = NoObject
        /\ last_termination_condition = NoAttr
        /\ last_solver_status = NoAttr
        /\ last_solution_set = [kind |-> "unset"]
        /\ last_solve_params = NoObject
        /\ pc = "idle"
        /\ loop = None
        /\ solutions = <<>>
        /\ ret = [op |-> "__init__", kind |-> "return", value |-> None]
        /\ solve_log = <<>>
        /\ calls = 0
        /\ edits = 0

Init ==
    \E breaks \in {{}, {NumSlots}} :
    \E mode \in {None, "NO_OFFSET", "BUILDING_A_FIRST"} :
        /\ Construct(AlignedTimes, breaks, mode, NoMovement, Catalog, OneVisitorCsv, FALSE)
        /\ lag_buffer = 0
        /\ lags = NoObject
        /\ constructed = <<>>
        /\ limits = DefaultLimits

(***************************************************************************)
(* Edits of the scheduler between solves.                                  *)
(***************************************************************************)
Returned(op, value) == [op |-> op, kind |-> "return", value |-> value]

Raised(op, exc) == [op |-> op, kind |-> "raise", value |-> exc]

Edit == pc = "idle" /\ edits < limits.edits /\ edits' = edits + 1

faculty_limited_availability(name, available) ==
    /\ Edit
    /\ IF name \notin DOMAIN faculty \/ \E t \in available : t \notin time_slots
       THEN /\ ret' = Raised("faculty_limited_availability", "ValueError")
            /\ UNCHANGED faculty
       ELSE /\ faculty' = [faculty EXCEPT ![name].avail = available]
            /\ ret' = Returned("faculty_limited_availability", None)
    /\ UNCHANGED <<cfgvars, external_faculty, students_available, wcfg,
                   student_preferences, requests, model, results,
                   last_termination_condition, last_solver_status, last_solution_set,
                   last_solve_params, pc, loop, solutions, solve_log, calls>>

\* The slot check of the source sits after the raise and never runs.
specify_limited_student_availability(given) ==
    /\ Edit
    /\ IF \E k \in DOMAIN given : k \notin DOMAIN student_data
       THEN /\ ret' = Raised("specify_limited_student_availability", "ValueError")
            /\ UNCHANGED students_available
       ELSE /\ students_available' =
                  [s \in DOMAIN student_data |->
                      IF s \in DOMAIN given THEN given[s] ELSE time_slots]
            /\ ret' = Returned("specify_limited_student_availability", None)
    /\ UNCHANGED <<cfgvars, faculty, external_faculty, wcfg, student_preferences,
                   requests, model, results, last_termination_condition,
                   last_solver_status, last_solution_set, last_solve_params, pc,
                   loop, solutions, solve_log, calls>>

add_external_faculty(name, building, room, areas, available) ==
    /\ Edit
    /\ external_faculty' = DictPut(external_faculty, name, Info(building, available, areas, room))
    /\ faculty' = IF name \notin DOMAIN faculty
                  THEN DictPut(faculty, name, Info(building, available, areas, room))
                  ELSE faculty
    /\ ret' = Returned("add_external_faculty", None)
    /\ UNCHANGED <<cfgvars, students_available, wcfg, student_preferences, requests,
                   model, results, last_termination_condition, last_solver_status,
                   last_solution_set, last_solve_params, pc, loop, solutions,
                   solve_log, calls>>

\* Variant: the request lists are created once and every call appends to them.
RequestsKeptAcrossCalls(w) ==
    LET fresh == UpdateStudentPreferences(w, student_data, faculty)
    IN  <<fresh[1], [s \in DOMAIN fresh[2] |-> requests[s] \o fresh[2][s]]>>

\* self._update_student_preferences() on the scheduler as it is now.
UpdateStudentPreferencesOfSelf(w) == UpdateStudentPreferences(w, student_data, faculty)

update_weights(faculty_weight, area_weight, base_weight) ==
    /\ Edit
    /\ LET w == WeightConfig(faculty_weight, area_weight, base_weight)
           prefs == UpdateStudentPreferencesOfSelf(w)
       IN  /\ wcfg' = w
           /\ student_preferences' = prefs[1]
           /\ requests' = prefs[2]
    /\ ret' = Returned("update_weights", None)
    /\ UNCHANGED <<cfgvars, faculty, external_faculty, students_available, model,
                   results, last_termination_condition, last_solver_status,
                   last_solution_set, last_solve_params, pc, loop, solutions,
                   solve_log, calls>>

(***************************************************************************)
(* Solve calls.                                                            *)
(***************************************************************************)
SolveParams(P) ==
    [group_penalty |-> P.group_penalty, min_visitors |-> P.min_visitors,
     max_visitors |-> P.max_visitors, min_faculty |-> P.min_faculty,
     max_group |-> P.max_group, enforce_breaks |-> P.enforce_breaks]

TopNSolveParams(P, n) ==
    [group_penalty |-> P.group_penalty, min_visitors |-> P.min_visitors,
     max_visitors |-> P.max_visitors, min_faculty |-> P.min_faculty,
     max_group |-> P.max_group, enforce_breaks |-> P.enforce_breaks,
     n_solutions |-> n]

\* What schedule_visitors hands back after a solve that did not raise.
ScheduleVisitorsResult(m, out) == None

Call == pc = "idle" /\ calls < limits.calls /\ calls' = calls + 1

RecordResults(out) ==
    /\ results' = [termination_condition |-> out.termination, status |-> out.status]
    /\ last_termination_condition' = out.termination
    /\ last_solver_status' = out.status

KeepResults == UNCHANGED <<results, last_termination_condition, last_solver_status>>

schedule_visitors(P) ==
    /\ Call
    /\ last_solve_params' = SolveParams(P)
    /\ LET b == BuildModel(P)
       IN  IF b.error # None
           THEN /\ ret' = Raised("schedule_visitors", b.error)
                /\ solve_log' = <<>>
                /\ KeepResults
                /\ UNCHANGED <<model, last_solution_set>>
           ELSE \E out \in SolverOutcomes(b) :
                /\ solve_log' = <<out.termination>>
                /\ model' = LoadVars(b, out)
                /\ IF out.termination = "raise"
                   THEN /\ ret' = Raised("schedule_visitors", "RuntimeError")
                        /\ KeepResults
                        /\ UNCHANGED last_solution_set
                   ELSE /\ RecordResults(out)
                        /\ last_solution_set' = [kind |-> "None"]
                        /\ ret' = Returned("schedule_visitors",
                                           ScheduleVisitorsResult(LoadVars(b, out), out))
    /\ UNCHANGED <<cfgvars, poolvars, pc, loop, solutions, edits>>

\* The entry of schedule_visitors_top_n up to the loop.
schedule_visitors_top_n(n_solutions, P) ==
    /\ Call
    /\ IF n_solutions < 1
       THEN /\ ret' = Raised("schedule_visitors_top_n", "ValueError")
            /\ solve_log' = <<>>
            /\ UNCHANGED <<model, last_solve_params, pc, loop, solutions>>
       ELSE /\ last_solve_params' = TopNSolveParams(P, n_solutions)
            /\ solve_log' = <<>>
            /\ LET b == BuildModel(P)
               IN  IF b.error # None
                   THEN /\ ret' = Raised("schedule_visitors_top_n", b.error)
                        /\ UNCHANGED <<model, pc, loop, solutions>>
                   ELSE /\ model' = b
                        /\ pc' = "topn"
                        /\ loop' = [rank |-> 1, n_solutions |-> n_solutions]
                        /\ solutions' = <<>>
                        /\ ret' = [op |-> "schedule_visitors_top_n", kind |-> "running",
                                   value |-> None]
    /\ KeepResults
    /\ UNCHANGED <<cfgvars, poolvars, last_solution_set, edits>>

\* Variant: only a solve proven optimal continues the loop.
StopsUnlessOptimal(termination) == termination # "optimal"

\* Whether the loop breaks on this termination.
StopsEnumeration(termination) == termination \notin OkTerminations

\* Variant: a stopping solve is never recorded.
RecordsNoStoppingSolve(found) == FALSE

\* Variant: every stopping solve is recorded.
RecordsEveryStoppingSolve(found) == TRUE

\* Whether a stopping solve is recorded as the scheduler's latest result.
RecordsStoppingSolve(found) == found = <<>>

\* Variant: ranks counted from zero.
RankFromZero(r, found) == Len(found)

\* The rank given to the solution found in the iteration for loop rank r.
RankOf(r, found) == r

\* SolutionSet(solutions)
SolutionSet(found) == [kind |-> "SolutionSet", solutions |-> found]

TopNReturn(found) ==
    /\ last_solution_set' = SolutionSet(found)
    /\ ret' = Returned("schedule_visitors_top_n", SolutionSet(found))
    /\ pc' = "idle"
    /\ loop' = None

\* One iteration of the loop of schedule_visitors_top_n, with the return
\* when the loop ends in it.
TopNIteration ==
    /\ pc = "topn"
    /\ \E out \in SolverOutcomes(model) :
        /\ solve_log' = Append(solve_log, out.termination)
        /\ IF out.termination = "raise"
           THEN /\ ret' = Raised("schedule_visitors_top_n", "RuntimeError")
                /\ pc' = "idle"
                /\ loop' = None
                /\ solutions' = <<>>
                /\ KeepResults
                /\ UNCHANGED <<model, last_solution_set>>
           ELSE IF StopsEnumeration(out.termination)
           THEN /\ IF RecordsStoppingSolve(solutions)
                   THEN RecordResults(out)
                   ELSE KeepResults
                /\ TopNReturn(solutions)
                /\ UNCHANGED <<model, solutions>>
           ELSE LET loaded == LoadVars(model, out)
                    solution == SnapshotSolution(loaded, RankOf(loop.rank, solutions), out)
                    found == Append(solutions, solution)
                IN  /\ RecordResults(out)
                    /\ solutions' = found
                    /\ model' = AddNoGoodCut(loaded, solution)
                    /\ IF loop.rank = loop.n_solutions
                       THEN TopNReturn(found)
                       ELSE /\ loop' = [loop EXCEPT !.rank = loop.rank + 1]
                            /\ UNCHANGED <<pc, ret, last_solution_set>>
    /\ UNCHANGED <<cfgvars, poolvars, last_solve_params, calls, edits>>

(***************************************************************************)
(* The specification.                                                      *)
(***************************************************************************)
Next ==
    \/ \E c \in AvailChoices : faculty_limited_availability(c[1], c[2])
    \/ \E given \in GivenChoices : specify_limited_student_availability(given)
    \/ add_external_faculty("fX", "B", "301", {"Area2"}, {1})
    \/ update_weights(<<[k |-> "Prof2", v |-> 60], [k |-> "Prof1", v |-> 40]>>,
                      DefaultAreaWeight, DefaultBaseWeight)
    \/ \E P \in ParamChoices : schedule_visitors(P)
    \/ \E n \in 0 .. MaxN : \E P \in ParamChoices : schedule_visitors_top_n(n, P)
    \/ TopNIteration

Spec == Init /\ [][Next]_vars

(***************************************************************************)
(* Top-N enumeration: properties.                                          *)
(***************************************************************************)
\* What schedule_visitors_top_n returned, as a tuple; <<>> while nothing
\* has been returned by it.
ReturnedSolutions ==
    IF ret.op = "schedule_visitors_top_n" /\ ret.kind = "return"
    THEN ret.value.solutions ELSE <<>>

\* C1: when schedule_visitors_top_n returns K >= 2 solutions, their sets of
\* active (visitor, host, slot) assignments are pairwise distinct.
C1_DistinctActiveSets ==
    \A i \in DOMAIN ReturnedSolutions : \A j \in DOMAIN ReturnedSolutions :
        i # j => ReturnedSolutions[i].active_meetings # ReturnedSolutions[j].active_meetings

\* A call has returned two solutions.
C1_Witness == Len(ReturnedSolutions) >= 2

\* C2: when schedule_visitors_top_n returns K >= 2 solutions, the objective
\* value of rank r+1 is at most the objective value of rank r, 1 <= r < K.
C2_ObjectiveNonIncreasing ==
    \A r \in DOMAIN ReturnedSolutions :
        r + 1 \in DOMAIN ReturnedSolutions =>
            ReturnedSolutions[r + 1].objective_value <= ReturnedSolutions[r].objective_value

\* TRUE once schedule_visitors_top_n has returned.
TopNReturned == ret.op = "schedule_visitors_top_n" /\ ret.kind = "return"

\* The solves of solve_log that ended optimal or feasible.
OkSolves == {k \in DOMAIN solve_log : solve_log[k] \in OkTerminations}

\* C3: schedule_visitors_top_n(n_solutions = N) stops at the first solve that
\* ends neither optimal nor feasible and returns what was found before it:
\* no solve follows a stopping solve, the K returned solutions are those of
\* the solves before it, K <= N, the loop ends early only on a stopping
\* solve, and the solution at position i has rank i.
C3_StopsAtFirstFailedSolve ==
    /\ ret.op = "schedule_visitors_top_n" /\ ret.kind \in {"running", "return"} =>
          \A k \in DOMAIN solve_log :
              solve_log[k] \notin OkTerminations => k = Len(solve_log)
    /\ TopNReturned =>
          /\ Len(ReturnedSolutions) <= last_solve_params.n_solutions
          /\ Len(ReturnedSolutions) = Cardinality(OkSolves)
          /\ \/ Len(ReturnedSolutions) = last_solve_params.n_solutions
             \/ solve_log[Len(solve_log)] \notin OkTerminations
          /\ \A i \in DOMAIN ReturnedSolutions : ReturnedSolutions[i].rank = i

\* A call asked for more than it returned: one solution, then a stopping solve.
C3_Witness ==
    /\ TopNReturned
    /\ Len(ReturnedSolutions) = 1
    /\ last_solve_params.n_solutions > 1
    /\ Len(solve_log) = 2

\* TRUE while the rows of the live model are those of the call's solutions.
CutsOfThisCall == pc = "topn" \/ TopNReturned

\* C4: the no-good cut added for a snapshot S excludes exactly S: a 0/1
\* vector y over all (visitor, host, slot) indices of the model satisfies
\* the cut if and only if the set of indices where y is 1 differs from the
\* active-assignment set of S.
C4_CutExcludesExactlySnapshot ==
    CutsOfThisCall =>
        /\ Len(Cuts(model)) = Len(solutions)
        /\ \A k \in DOMAIN solutions :
           \A y \in SUBSET AllIndices(model.visitors, model.faculty) :
               CutSatisfied(Cuts(model)[k], y) <=> y # solutions[k].active_meetings

\* A cut is in the model for a snapshot with at least one meeting.
C4_Witness ==
    /\ CutsOfThisCall
    /\ \E k \in DOMAIN solutions : solutions[k].active_meetings # {}

(***************************************************************************)
(* Snapshots: properties.                                                  *)
(***************************************************************************)
\* C5: a returned snapshot is stable: its rank, objective value, active
\* assignment set and context (time labels, host metadata, weights,
\* requests) read the same after every later step: a later cut, a later
\* solve, or a later faculty_limited_availability, add_external_faculty,
\* update_weights or specify_limited_student_availability.
C5_SnapshotStable ==
    [][\A i \in DOMAIN solutions :
          i \in DOMAIN solutions' => SolutionView(solutions[i])' = SolutionView(solutions[i])]_vars

\* Two snapshots are held and the pool has since been edited away from
\* what the first one recorded.
C5_Witness ==
    /\ Len(solutions) >= 2
    /\ ret.kind = "return"
    /\ ret.op \in {"faculty_limited_availability", "add_external_faculty", "update_weights"}
    /\ \/ DOMAIN faculty # DOMAIN solutions[1].context.faculty
       \/ student_preferences # solutions[1].context.student_preferences
       \/ \E n \in DOMAIN faculty : faculty[n] # solutions[1].context.faculty[n]

(***************************************************************************)
(* Solve calls: properties.                                                *)
(***************************************************************************)
\* C6: schedule_visitors returns a SolutionResult of rank 1 whose active
\* assignment set is the solved model's assignment when the solve ends
\* optimal or feasible, and returns None when the model is infeasible.
C6_ScheduleVisitorsReturnsSnapshot ==
    ret.op = "schedule_visitors" /\ ret.kind = "return" =>
        IF solve_log[1] \in OkTerminations
        THEN /\ ret.value # None
             /\ ret.value.rank = 1
             /\ ret.value.active_meetings = model.y
        ELSE solve_log[1] = "infeasible" => ret.value = None

\* C7: infeasibility is an outcome, not an error: when the first solve of
\* schedule_visitors_top_n is infeasible the call raises nothing, returns an
\* empty solution set, and records that solve, so that has_feasible_solution()
\* is False and infeasibility_report() is the capacity diagnostic.
C7_FirstSolveInfeasible ==
    /\ ret.op = "schedule_visitors_top_n"
    /\ Len(solve_log) >= 1
    /\ solve_log[1] = "infeasible"
    => /\ ret.kind = "return"
       /\ ret.value.solutions = <<>>
       /\ last_solution_set.kind = "SolutionSet"
       /\ last_solution_set.solutions = <<>>
       /\ last_termination_condition = "infeasible"
       /\ ~has_feasible_solution
       /\ infeasibility_report.kind = "capacity diagnostic"
       /\ infeasibility_report.termination = "infeasible"

\* schedule_visitors_top_n has returned after a first solve that was infeasible.
C7_Witness == TopNReturned /\ solve_log = <<"infeasible">>

\* The last step was a solve call that asked for break constraints, by
\* enforce_breaks or by the legacy NO_OFFSET default, with no break slot
\* configured.
BreakCallWithoutBreakSlots ==
    /\ ret.op \in {"schedule_visitors", "schedule_visitors_top_n"}
    /\ last_solve_params # NoObject
    /\ require_break_constraints_default \/ last_solve_params.enforce_breaks
    /\ break_times = {}

\* Every (visitor, available host) pair has a weight.
WeightsCoverModel ==
    \A s \in DOMAIN student_data : \A f \in faculty_available :
        <<s, f>> \in DOMAIN student_preferences

current_solution_result ==
    IF ~has_feasible_solution THEN [error |-> "RuntimeError"]
    ELSE SnapshotSolution(model, 1, [termination |-> last_termination_condition,
                                     status |-> last_solver_status])

\* schedule_visitors_top_n has returned K >= 1 solutions after a solve that
\* ended neither optimal nor feasible.
StoppedAfterSolutions ==
    /\ TopNReturned
    /\ Len(ReturnedSolutions) >= 1
    /\ solve_log[Len(solve_log)] \notin OkTerminations

\* C25: after schedule_visitors_top_n has found K >= 1 solutions and then
\* stopped on a solve that was not feasible, the solve state stays at the
\* last feasible solve: has_feasible_solution() is True,
\* infeasibility_report() is "Solution is feasible.", last_solution_set is
\* the returned set, and the current-solution snapshot has the active
\* assignment set of the rank-K solution.
C25_StateStaysAtLastFeasibleSolve ==
    StoppedAfterSolutions =>
        /\ has_feasible_solution
        /\ infeasibility_report = [kind |-> "Solution is feasible."]
        /\ last_solution_set = ret.value
        /\ current_solution_result.active_meetings
              = ReturnedSolutions[Len(ReturnedSolutions)].active_meetings

\* The model had one feasible vector; the second solve was infeasible.
C25_Witness ==
    /\ StoppedAfterSolutions
    /\ solve_log = <<"optimal", "infeasible">>

\* The call asked for at least as many solutions as the built model has
\* feasible assignment vectors.
AskedForAll ==
    /\ TopNReturned
    /\ Cardinality(model.feasible) <= last_solve_params.n_solutions

EverySolveDecided == \A k \in DOMAIN solve_log : solve_log[k] \in OkTerminations \cup {"infeasible"}

C27_CutsAppendOnly ==
    /\ [](CutsOfThisCall =>
            /\ Len(Cuts(model)) = Len(solutions)
            /\ \A k \in DOMAIN solutions : Cuts(model)[k] = NoGoodCut(model, solutions[k]))
    /\ [][pc = "topn" =>
            \A k \in DOMAIN Cuts(model) :
                k \in DOMAIN Cuts(model') /\ Cuts(model')[k] = Cuts(model)[k]]_vars

\* A call has returned two solutions and the model holds two cuts.
C27_Witness ==
    /\ TopNReturned
    /\ Len(ReturnedSolutions) = 2
    /\ Len(Cuts(model)) = 2

\* C29: the utility weight map is total over the scheduling pool after any
\* sequence of add_external_faculty, faculty_limited_availability,
\* specify_limited_student_availability and update_weights calls: every
\* (visitor, host) pair with the host in the pool and a non-empty
\* availability has a weight, and no model build fails on a missing weight.
C29_WeightMapTotal ==
    /\ WeightsCoverModel
    /\ ret.kind = "raise" => ret.value # "KeyError"

(***************************************************************************)
(* Travel-lag derivation on its own: a grid and a buffer are drawn, then   *)
(* compute_min_travel_lags is applied to them.                             *)
(***************************************************************************)
LagSlots == 3

\* Two-building grids as the lag tests sweep them: A starts at 1:00, B at
\* an offset, each with its own slot duration and step.
LagGrids ==
    {[b \in BuildingSet |->
         IF b = "A" THEN BuildSlots(60, g[2], g[4], LagSlots)
         ELSE BuildSlots(60 + g[1], g[3], g[5], LagSlots)] :
       g \in {0, 10, 20} \X {20, 30, 50} \X {20, 30, 50} \X {25, 30} \X {25, 30}}

LagBuffers == {0, 10}

InitLag ==
    /\ times_by_building \in LagGrids
    /\ lag_buffer \in LagBuffers
    /\ lags = NoObject
    /\ constructed = <<>>
    /\ limits = DefaultLimits
    /\ break_times = {}
    /\ require_break_constraints_default = FALSE
    /\ movement_policy = "none"
    /\ building_phase_slot = [b \in BuildingSet |-> 1]
    /\ travel_slots = ZeroTravel
    /\ student_data = NoObject
    /\ faculty = NoObject
    /\ external_faculty = NoObject
    /\ legacy_faculty = NoObject
    /\ include_legacy_faculty = FALSE
    /\ students_available = NoObject
    /\ wcfg = NoObject
    /\ student_preferences = NoObject
    /\ requests = NoObject
    /\ model = NoObject
    /\ results = NoObject
    /\ last_termination_condition = NoAttr
    /\ last_solver_status = NoAttr
    /\ last_solution_set = [kind |-> "unset"]
    /\ last_solve_params = NoObject
    /\ pc = "idle"
    /\ loop = None
    /\ solutions = <<>>
    /\ ret = [op |-> "none", kind |-> "return", value |-> None]
    /\ solve_log = <<>>
    /\ calls = 0
    /\ edits = 0

\* lags = compute_min_travel_lags(times_by_building, lag_buffer)
ComputeLags ==
    /\ lags = NoObject
    /\ lags' = compute_min_travel_lags(times_by_building, lag_buffer)
    /\ ret' = Returned("compute_min_travel_lags", None)
    /\ UNCHANGED <<times_by_building, break_times, require_break_constraints_default,
                   movement_policy, building_phase_slot, travel_slots, student_data,
                   legacy_faculty, include_legacy_faculty, lag_buffer, constructed, limits,
                   poolvars, model, results,
                   last_termination_condition, last_solver_status, last_solution_set,
                   last_solve_params, pc, loop, solutions, solve_log, calls, edits>>

NextLag == ComputeLags

SpecLag == InitLag /\ [][NextLag]_vars

\* Slot j of b_to starts before slot i of b_from has ended, buffer included.
OverlappingTransition(b_from, i, b_to, j) ==
    slot2min(times_by_building[b_to][j])[1]
        < slot2min(times_by_building[b_from][i])[2] + lag_buffer

MoveGrids ==
    {[b \in BuildingSet |->
         IF b = "A" THEN BuildSlots(60, 25, 30, NumSlots)
         ELSE BuildSlots(60 + g[1], g[2], 30, NumSlots)] :
       g \in {0, 15} \X {25, 50}}

\* One host in A and two in B.
MoveCatalog ==
    [n \in {"fA", "fB", "fC"} |->
        [building |-> IF n = "fA" THEN "A" ELSE "B",
         areas |-> IF n = "fA" THEN {"Area1"} ELSE {"Area2"},
         room |-> IF n = "fA" THEN "101" ELSE "201",
         status |-> "active"]]

MoveParams == {Params(0, 2, 1, 1, FALSE)}

InitMove ==
    \E times \in MoveGrids : \E buffer \in LagBuffers :
        /\ Construct(times, {}, None,
                     [policy |-> "travel_time",
                      travel_slots |-> compute_min_travel_lags(times, buffer)],
                     MoveCatalog, OneVisitorCsv, FALSE)
        /\ lag_buffer = buffer
        /\ lags = compute_min_travel_lags(times, buffer)
        /\ constructed = <<>>
        /\ limits = DefaultLimits

NextMove ==
    \/ \E P \in MoveParams : schedule_visitors(P)
    \/ \E n \in 1 .. MaxN : \E P \in MoveParams : schedule_visitors_top_n(n, P)
    \/ TopNIteration

SpecMove == InitMove /\ [][NextMove]_vars

\* The [start, end) minutes of a meeting with host f at slot t, by the slot
\* label of the host's building.
MeetingInterval(f, t) == slot2min(times_by_building[faculty[f].building][t])

IntervalsOverlap(a, b) == a[1] < b[2] /\ b[1] < a[2]

\* Two different meetings of one visitor that overlap in real time.
OverlappingMeetings(active) ==
    {p \in active \X active :
        /\ p[1] # p[2]
        /\ p[1][1] = p[2][1]
        /\ IntervalsOverlap(MeetingInterval(p[1][2], p[1][3]),
                            MeetingInterval(p[2][2], p[2][3]))}

\* The assignment sets the calls have handed out: the snapshots of a
\* schedule_visitors_top_n and the assignment schedule_visitors has loaded.
SolvedAssignments ==
    {solutions[k].active_meetings : k \in DOMAIN solutions}
    \cup (IF /\ ret.op = "schedule_visitors" /\ ret.kind = "return"
             /\ solve_log[1] \in OkTerminations
          THEN {model.y} ELSE {})

OwnSlotsDisjoint(b) ==
    \A i \in time_slots : \A j \in time_slots :
        i # j => ~IntervalsOverlap(slot2min(times_by_building[b][i]),
                                   slot2min(times_by_building[b][j]))

PairCsv ==
    [s \in {"v1", "v2"} |->
        IF s = "v1"
        THEN [Prof1 |-> "fA", Prof2 |-> "fX", Area1 |-> "Area1", Area2 |-> NaN]
        ELSE [Prof1 |-> "fB", Prof2 |-> "fA", Area1 |-> "Area2", Area2 |-> NaN]]

\* Every host meets exactly one visitor; every visitor meets two hosts.
PairParams == {Params(1, 1, 1, 1, FALSE), Params(0, 2, 2, 1, FALSE)}

PairAvailChoices == {<<"fA", {1}>>, <<"fB", {}>>}

PairGivenChoices == {[s \in {"v1"} |-> {1}], [s \in {"v2"} |-> {}]}

InitPair ==
    \E mode \in {None, "BUILDING_A_FIRST"} :
        /\ Construct(AlignedTimes, {}, mode, NoMovement, Catalog, PairCsv, FALSE)
        /\ lag_buffer = 0
        /\ lags = NoObject
        /\ constructed = <<>>
        /\ limits = DefaultLimits

NextPair ==
    \/ \E c \in PairAvailChoices : faculty_limited_availability(c[1], c[2])
    \/ \E given \in PairGivenChoices : specify_limited_student_availability(given)
    \/ \E P \in PairParams : schedule_visitors(P)
    \/ \E n \in 1 .. MaxN : \E P \in PairParams : schedule_visitors_top_n(n, P)
    \/ TopNIteration

SpecPair == InitPair /\ [][NextPair]_vars

(***************************************************************************)
(* The rows of the model: properties of the solutions handed out.          *)
(***************************************************************************)
\* TRUE while the live model is the one the last solve call built and the
\* scheduler is as that build read it: the call is running or was the last
\* operation to return.
ModelOfThisCall ==
    \/ pc = "topn"
    \/ /\ ret.op \in {"schedule_visitors", "schedule_visitors_top_n"}
       /\ ret.kind = "return"

\* The assignment sets of that call: the snapshots of schedule_visitors_top_n
\* (every rank) and the assignment schedule_visitors has loaded.
CallAssignments ==
    IF pc = "topn" \/ TopNReturned
    THEN {solutions[k].active_meetings : k \in DOMAIN solutions}
    ELSE IF /\ ret.op = "schedule_visitors" /\ ret.kind = "return"
            /\ solve_log[1] \in OkTerminations
    THEN {model.y}
    ELSE {}

\* C12: in every returned solution (every rank), each visitor has at most
\* one active assignment per time slot.
C12_OneMeetingPerSlot ==
    \A y \in CallAssignments : \A i \in y : \A j \in y :
        i[1] = j[1] /\ i[3] = j[3] => i = j

\* Two ranks were returned and a visitor has two meetings in one of them.
C12_Witness ==
    /\ TopNReturned
    /\ Len(solutions) = 2
    /\ \E k \in DOMAIN solutions : \E i \in solutions[k].active_meetings :
       \E j \in solutions[k].active_meetings : i[1] = j[1] /\ i # j

\* C13: in every returned solution, every active assignment (visitor, host,
\* slot) has its slot in the host's availability set as it was when the
\* model was built; a host whose availability was empty then is not in the
\* model's host set and has no assignment.
C13_WithinHostAvailability ==
    /\ \A y \in CallAssignments : \A i \in y : i[3] \in faculty[i[2]].avail
    /\ ModelOfThisCall =>
          \A f \in DOMAIN faculty : faculty[f].avail = {} =>
              /\ f \notin model.faculty
              /\ \A y \in CallAssignments : \A i \in y : i[2] # f

\* The pool holds a host without availability, and a returned solution has
\* a meeting with a host whose availability was cut down.
C13_Witness ==
    /\ TopNReturned
    /\ \E f \in DOMAIN faculty : faculty[f].avail = {}
    /\ \E k \in DOMAIN solutions : \E i \in solutions[k].active_meetings :
          faculty[i[2]].avail # time_slots

\* C14: in every returned solution, no visitor has an active assignment at a
\* slot outside the visitor's availability set: for each visitor and each
\* slot not in students_available[visitor], every assignment variable of
\* the visitor at that slot is fixed to zero in the built model.
C14_WithinVisitorAvailability ==
    /\ \A y \in CallAssignments : \A i \in y : i[3] \in students_available[i[1]]
    /\ ModelOfThisCall =>
          \A s \in model.visitors : \A f \in model.faculty :
          \A t \in time_slots \ students_available[s] : <<s, f, t>> \in model.fixed

\* A visitor's availability was cut down, variables are fixed in the model,
\* and a returned solution has a meeting of that visitor.
C14_Witness ==
    /\ TopNReturned
    /\ model.fixed # {}
    /\ \E k \in DOMAIN solutions : \E i \in solutions[k].active_meetings :
          students_available[i[1]] # time_slots

\* C15: in every returned solution, for every host in the model the total
\* number of active assignments to that host, counted over all visitors and
\* slots, is at least min_visitors and at most max_visitors.
C15_HostMeetingCountBounded ==
    ModelOfThisCall =>
        \A y \in CallAssignments : \A f \in model.faculty :
            /\ MeetingsOfHost(y, f) >= last_solve_params.min_visitors
            /\ MeetingsOfHost(y, f) <= last_solve_params.max_visitors

\* Two ranks were returned under min_visitors = max_visitors = 1, with two
\* hosts in the model.
C15_Witness ==
    /\ TopNReturned
    /\ Len(solutions) = 2
    /\ last_solve_params.min_visitors = 1
    /\ last_solve_params.max_visitors = 1
    /\ Cardinality(model.faculty) = 2

\* C16: in every returned solution, each visitor's total number of active
\* assignments is at least min(min_faculty, number of slots in the
\* visitor's availability set).
C16_VisitorMinimumMeetings ==
    ModelOfThisCall =>
        \A y \in CallAssignments : \A s \in model.visitors :
            MeetingsOfVisitor(y, s) >=
                Min2(last_solve_params.min_faculty, Cardinality(students_available[s]))

\* min_faculty is 2, a visitor is available in one slot only and has one
\* meeting, and the other visitor has two.
C16_Witness ==
    /\ TopNReturned
    /\ last_solve_params.min_faculty = 2
    /\ \E k \in DOMAIN solutions : \E s \in model.visitors : \E r \in model.visitors :
          /\ Cardinality(students_available[s]) = 1
          /\ MeetingsOfVisitor(solutions[k].active_meetings, s) = 1
          /\ MeetingsOfVisitor(solutions[k].active_meetings, r) = 2

\* C17: in every returned solution, the number of visitors assigned to any
\* single (host, slot) pair is at most max_group.
C17_GroupWithinMaxGroup ==
    ModelOfThisCall =>
        \A y \in CallAssignments : \A f \in model.faculty : \A t \in time_slots :
            GroupSize(y, f, t) <= last_solve_params.max_group

\* Under max_group = 1 a host meets two visitors, in two slots.
C17_Witness ==
    /\ TopNReturned
    /\ last_solve_params.max_group = 1
    /\ \E k \in DOMAIN solutions : \E f \in model.faculty :
          MeetingsOfHost(solutions[k].active_meetings, f) = 2

\* C19: in every returned solution, no active assignment (visitor, host, t)
\* has t smaller than the phase slot configured for the host's location
\* (default phase slot 1).
C19_NotBeforePhaseSlot ==
    \A y \in CallAssignments : \A i \in y :
        i[3] >= building_phase_slot[faculty[i[2]].building]

\* A location has phase slot 2, and a returned solution has a meeting there
\* and a meeting in slot 1 elsewhere.
C19_Witness ==
    /\ TopNReturned
    /\ \E k \in DOMAIN solutions : \E i \in solutions[k].active_meetings :
       \E j \in solutions[k].active_meetings :
          /\ building_phase_slot[faculty[i[2]].building] = 2
          /\ j[3] = 1

\* C18: under the travel_time policy, for every ordered pair of distinct
\* locations (From, To) with lag l = travel_slots[From][To] > 0, no returned
\* solution has a visitor with a meeting at a host in From at slot t and a
\* meeting at a host in To at a slot t' with t < t' <= t + l.
C18_TravelLagRespected ==
    movement_policy = "travel_time" =>
        \A y \in CallAssignments : \A i \in y : \A j \in y :
            LET b_from == faculty[i[2]].building
                b_to == faculty[j[2]].building
            IN  /\ i[1] = j[1]
                /\ b_from # b_to
                /\ travel_slots[b_from][b_to] > 0
                => ~(i[3] < j[3] /\ j[3] <= i[3] + travel_slots[b_from][b_to])

\* A returned solution has a visitor who goes from one location to another
\* against a positive lag and arrives after the lag window.
C18_Witness ==
    /\ movement_policy = "travel_time"
    /\ TopNReturned
    /\ \E k \in DOMAIN solutions : \E i \in solutions[k].active_meetings :
       \E j \in solutions[k].active_meetings :
          /\ i[1] = j[1]
          /\ faculty[i[2]].building # faculty[j[2]].building
          /\ travel_slots[faculty[i[2]].building][faculty[j[2]].building] > 0
          /\ j[3] > i[3] + travel_slots[faculty[i[2]].building][faculty[j[2]].building]

(***************************************************************************)
(* Break slots: a grid with two break slots, solved with and without       *)
(* break enforcement.                                                      *)
(***************************************************************************)
BreakSlots == {2, NumSlots}

BreakParams == {Params(0, 2, 1, 1, TRUE), Params(0, 2, 2, 1, FALSE)}

InitBreak ==
    \E mode \in {None, "NO_OFFSET"} :
        /\ Construct(AlignedTimes, BreakSlots, mode, NoMovement, Catalog, OneVisitorCsv, FALSE)
        /\ lag_buffer = 0
        /\ lags = NoObject
        /\ constructed = <<>>
        /\ limits = DefaultLimits

NextBreak ==
    \/ faculty_limited_availability("fB", BreakSlots)
    \/ \E P \in BreakParams : schedule_visitors(P)
    \/ \E n \in 1 .. MaxN : \E P \in BreakParams : schedule_visitors_top_n(n, P)
    \/ TopNIteration

SpecBreak == InitBreak /\ [][NextBreak]_vars

\* Break rows are in the model of the last solve call.
BreaksEnforced ==
    /\ ModelOfThisCall
    /\ require_break_constraints_default \/ last_solve_params.enforce_breaks

\* C20: when break enforcement is active, in every returned solution each
\* visitor has at least one configured break slot at which the visitor has
\* no active assignment.
C20_VisitorKeepsBreakSlotFree ==
    BreaksEnforced =>
        \A y \in CallAssignments : \A s \in model.visitors :
            \E t \in break_times : \A i \in y : ~(i[1] = s /\ i[3] = t)

\* Under break enforcement a returned solution has a visitor with a meeting
\* in one break slot and a meeting outside the break slots.
C20_Witness ==
    /\ BreaksEnforced
    /\ TopNReturned
    /\ \E k \in DOMAIN solutions : \E i \in solutions[k].active_meetings :
       \E j \in solutions[k].active_meetings :
          i[1] = j[1] /\ i[3] \in break_times /\ j[3] \notin break_times

(***************************************************************************)
(* Movement configuration on its own: a time grid and phase slots are      *)
(* drawn, then schedulers are constructed on them with different movement  *)
(* dicts, and what each construction set or raised is kept.                *)
(***************************************************************************)
MaxSchedulers == 2   \* schedulers constructed on one grid

\* phase_slot dicts handed to the constructor.
PhaseChoices ==
    {[b \in BuildingSet |-> 1], [b \in BuildingSet |-> IF b = building_a THEN 1 ELSE 2]}

\* movement dicts handed to the constructor.
MovementChoices(phase) ==
    {[policy |-> "nonoverlap_time", phase_slot |-> phase],
     [policy |-> "travel_time", phase_slot |-> phase, travel_slots |-> AutoText],
     [policy |-> "travel_time", phase_slot |-> phase],
     [policy |-> "none", phase_slot |-> phase]}

\* The grid and the phase slots; no scheduler is constructed yet.
InitCfg ==
    /\ times_by_building \in LagGrids
    /\ building_phase_slot \in PhaseChoices
    /\ constructed = <<>>
    /\ limits = DefaultLimits
    /\ lag_buffer = 0
    /\ lags = NoObject
    /\ break_times = {}
    /\ require_break_constraints_default = FALSE
    /\ movement_policy = NoAttr
    /\ travel_slots = NoObject
    /\ student_data = NoObject
    /\ faculty = NoObject
    /\ external_faculty = NoObject
    /\ legacy_faculty = NoObject
    /\ include_legacy_faculty = FALSE
    /\ students_available = NoObject
    /\ wcfg = NoObject
    /\ student_preferences = NoObject
    /\ requests = NoObject
    /\ model = NoObject
    /\ results = NoObject
    /\ last_termination_condition = NoAttr
    /\ last_solver_status = NoAttr
    /\ last_solution_set = [kind |-> "unset"]
    /\ last_solve_params = NoObject
    /\ pc = "idle"
    /\ loop = None
    /\ solutions = <<>>
    /\ ret = [op |-> "none", kind |-> "return", value |-> None]
    /\ solve_log = <<>>
    /\ calls = 0
    /\ edits = 0

\* Scheduler(times_by_building, ..., movement = movement): __init__ up to
\* the end of _configure_movement, which is where the movement attributes
\* are set and where an unsupported configuration raises.
NewScheduler(movement) ==
    /\ Len(constructed) < MaxSchedulers
    /\ LET mv == ConfigureMovement(None, movement)
       IN  /\ constructed' = Append(constructed, [movement |-> movement, attrs |-> mv])
           /\ ret' = IF mv.error = None THEN Returned("__init__", None)
                     ELSE Raised("__init__", mv.error)
    /\ UNCHANGED <<times_by_building, break_times, require_break_constraints_default,
                   movement_policy, building_phase_slot, travel_slots, student_data,
                   legacy_faculty, include_legacy_faculty, lag_buffer, lags, limits,
                   poolvars, model, results,
                   last_termination_condition, last_solver_status, last_solution_set,
                   last_solve_params, pc, loop, solutions, solve_log, calls, edits>>

NextCfg == \E movement \in MovementChoices(building_phase_slot) : NewScheduler(movement)

SpecCfg == InitCfg /\ [][NextCfg]_vars

\* The construction was asked for the policy nonoverlap_time.
AskedNonoverlap(c) == c.movement.policy = "nonoverlap_time"

\* The construction was asked for travel_time with travel_slots = "auto".
AskedTravelAuto(c) ==
    /\ c.movement.policy = "travel_time"
    /\ "travel_slots" \in DOMAIN c.movement
    /\ AutoText = c.movement.travel_slots

\* C11: for the same time grid and phase slots, constructing a Scheduler
\* with policy nonoverlap_time yields a travel_slots lag matrix identical to
\* the one obtained with policy travel_time and travel_slots = "auto".
C11_NonoverlapMatchesAuto ==
    \A i \in DOMAIN constructed : \A j \in DOMAIN constructed :
        AskedNonoverlap(constructed[i]) /\ AskedTravelAuto(constructed[j]) =>
            /\ constructed[i].attrs.error = None
            /\ constructed[j].attrs.error = None
            /\ constructed[i].attrs.travel_slots = constructed[j].attrs.travel_slots

(***************************************************************************)
(* The scheduling pool on its own: a catalog with legacy hosts, requests   *)
(* by alias and for a host outside the catalog, then edits of the pool,    *)
(* the availabilities and the weights.                                     *)
(***************************************************************************)
MaxPoolEdits == 2   \* edits made on one scheduler of this section

\* One active host and two legacy hosts.
PoolCatalog ==
    [n \in {"fA", "fL", "fM"} |->
        [building |-> IF n = "fA" THEN "A" ELSE "B",
         areas |-> IF n = "fA" THEN {"Area1"} ELSE {"Area2"},
         room |-> IF n = "fA" THEN "101" ELSE "201",
         status |-> IF n = "fA" THEN "active" ELSE "legacy"]]

\* The visitor's first request is an active host, a legacy host by name or
\* a legacy host by alias; the second is a host outside the catalog.
PoolCsvs ==
    {[s \in {"v1"} |-> [Prof1 |-> first, Prof2 |-> "fX", Area1 |-> "Area2", Area2 |-> NaN]] :
        first \in {"fA", "fL", "El"}}

\* The loop of _load_student_preferences that writes the alias-resolved name
\* into the row it iterates over.
ResolvedCsv(sd) ==
    [s \in DOMAIN sd |->
        [c \in DOMAIN sd[s] |->
            IF c \in SeqToSet(FacultyFields) /\ sd[s][c] # NaN THEN AliasOf(sd[s][c])
            ELSE sd[s][c]]]

\* self.student_data after that loop: iterrows() hands out a view of the
\* frame or a copy of the row, by the frame's dtypes and the pandas in use,
\* so the write reaches the frame or is lost.
StoredCsvs(sd) == {sd, ResolvedCsv(sd)}

InitPool ==
    \E csv \in PoolCsvs : \E sd \in StoredCsvs(csv) : \E include_legacy \in BOOLEAN :
        /\ Construct(AlignedTimes, {}, None, NoMovement, PoolCatalog, sd, include_legacy)
        /\ lag_buffer = 0
        /\ lags = NoObject
        /\ constructed = <<>>
        /\ limits = [calls |-> 0, edits |-> MaxPoolEdits]

\* Weight arguments tried: the defaults and a reversed ranking.
PoolWeightChoices ==
    {DefaultFacultyWeight, <<[k |-> "Prof2", v |-> 60], [k |-> "Prof1", v |-> 40]>>}

PoolAvailChoices == {<<"fA", {1}>>, <<"fX", {1, 2}>>, <<"fA", {0}>>, <<"nobody", {1}>>}

PoolGivenChoices ==
    {[s \in {"v1"} |-> {1}], [s \in {"v1"} |-> {NumSlots + 1}], [s \in {"ghost"} |-> {1}]}

\* What add_external_faculty is called with for the requested host fX.
PoolRegistration == Info("B", {1}, {"Area2"}, "301")

NextPool ==
    \/ \E c \in PoolAvailChoices : faculty_limited_availability(c[1], c[2])
    \/ \E given \in PoolGivenChoices : specify_limited_student_availability(given)
    \/ add_external_faculty("fX", PoolRegistration.building, PoolRegistration.room,
                            PoolRegistration.areas, PoolRegistration.avail)
    \/ \E fw \in PoolWeightChoices : update_weights(fw, DefaultAreaWeight, DefaultBaseWeight)

SpecPool == InitPool /\ [][NextPool]_vars

\* C21: update_weights is idempotent: a call that follows the constructor's
\* own update_weights() or an earlier update_weights, with the same
\* faculty_weight, area_weight and base_weight and nothing changed in
\* between, leaves student_preferences and the request lists as they were.
C21_UpdateWeightsIdempotent ==
    [][/\ ret.op \in {"__init__", "update_weights"}
       /\ ret'.op = "update_weights"
       /\ wcfg' = wcfg
       => /\ student_preferences' = student_preferences
          /\ requests' = requests]_vars

\* The first call after construction was update_weights with the default
\* weights, which the constructor's own call had used, and the visitor has
\* a request in the pool.
C21_Witness ==
    /\ ret.op = "update_weights"
    /\ edits = 1
    /\ wcfg = WeightConfig(DefaultFacultyWeight, DefaultAreaWeight, DefaultBaseWeight)
    /\ \E s \in DOMAIN requests : requests[s] # <<>>

\* C22: a host that was created as a placeholder from a visitor request is
\* overridden by registration: right after add_external_faculty(name,
\* building, room, areas, available) the entry of name in the scheduling
\* pool, which the model is built from, has the given building, room,
\* areas and availability.
C22_RegistrationOverridesPlaceholder ==
    ret.op = "add_external_faculty" => faculty["fX"] = PoolRegistration

\* The hosts the visitors' requests name, after alias resolution.
RequestedHosts == {AliasOf(n) : n \in NamesInPrefs(student_data)}

\* C23: after construction with include_legacy_faculty = False a catalog
\* host with status legacy is in the scheduling pool if and only if a
\* visitor request names it after alias resolution; with
\* include_legacy_faculty = True every legacy host is in the pool.
C23_LegacyInPoolIffRequested ==
    ret.op = "__init__" =>
        \A n \in DOMAIN legacy_faculty :
            IF include_legacy_faculty THEN n \in DOMAIN faculty
            ELSE n \in DOMAIN faculty <=> n \in RequestedHosts

\* C24: both availability setters reject invalid input before changing
\* state: a faculty_limited_availability or
\* specify_limited_student_availability call with an unknown host or visitor
\* name, or with a slot index outside 1..number_time_slots, raises
\* ValueError and leaves the stored availability as it was.
C24_SettersRejectInvalidInput ==
    [][/\ \A c \in PoolAvailChoices :
             /\ faculty_limited_availability(c[1], c[2])
             /\ c[1] \notin DOMAIN faculty \/ ~(c[2] \subseteq time_slots)
             => /\ ret' = Raised("faculty_limited_availability", "ValueError")
                /\ faculty' = faculty
       /\ \A given \in PoolGivenChoices :
             /\ specify_limited_student_availability(given)
             /\ \E k \in DOMAIN given :
                    k \notin DOMAIN student_data \/ ~(given[k] \subseteq time_slots)
             => /\ ret' = Raised("specify_limited_student_availability", "ValueError")
                /\ students_available' = students_available]_vars

(***************************************************************************)
(* Several solve calls on one scheduler, with a model that has few         *)
(* feasible vectors, and with calls that raise from the build (break       *)
(* enforcement without break slots) or from the solver.                    *)
(***************************************************************************)
MaxRepeatCalls == 2   \* solve calls made on one scheduler of this section

\* Every host meets the visitor once; the second asks for break rows.
RepeatParams == {Params(1, 1, 2, 1, e) : e \in BOOLEAN}

InitRepeat ==
    /\ Construct(AlignedTimes, {}, "BUILDING_A_FIRST", NoMovement, Catalog, OneVisitorCsv, FALSE)
    /\ lag_buffer = 0
    /\ lags = NoObject
    /\ constructed = <<>>
    /\ limits = [calls |-> MaxRepeatCalls, edits |-> 0]

NextRepeat ==
    \/ \E P \in RepeatParams : schedule_visitors(P)
    \/ \E n \in 1 .. MaxN : \E P \in RepeatParams : schedule_visitors_top_n(n, P)
    \/ TopNIteration

SpecRepeat == InitRepeat /\ [][NextRepeat]_vars

\* C28: cuts never leak between calls: every call of schedule_visitors or
\* schedule_visitors_top_n solves a freshly built model with zero no-good
\* cuts: the first solve of a schedule_visitors_top_n call can return every
\* feasible vector of the model, and the model that schedule_visitors has
\* solved holds no cut.
C28_CutsDoNotLeak ==
    /\ pc = "topn" /\ solutions = <<>> =>
          /\ Cuts(model) = <<>>
          /\ Candidates(model) = model.feasible
    /\ ret.op = "schedule_visitors" /\ solve_log # <<>> =>
          /\ Cuts(model) = <<>>
          /\ Candidates(model) = model.feasible

\* The second call, a schedule_visitors, has loaded an assignment that the
\* enumeration of the first call had found and excluded by a cut.
C28_Witness ==
    /\ calls = 2
    /\ ret.op = "schedule_visitors"
    /\ ret.kind = "return"
    /\ solve_log[1] \in OkTerminations
    /\ \E k \in DOMAIN solutions : solutions[k].active_meetings = model.y

\* C30: the feasibility flag never refers to a different model than the
\* live one: after any sequence of schedule_visitors and
\* schedule_visitors_top_n calls, including calls that raise while building
\* or while solving, has_feasible_solution() is True only if the scheduler's
\* current model holds values loaded from a solve of that same model that
\* ended optimal or feasible.
C30_FeasibleFlagOfLiveModel ==
    pc = "idle" /\ has_feasible_solution =>
        /\ model # NoObject
        /\ ~model.stale

====
